---------------------------- MODULE Spec2Model ----------------------------
(***************************************************************************)
(* Resilience layer of the listing application: the bounded priority task  *)
(* queue (backend QueueService), the circuit breaker (frontend             *)
(* CircuitBreaker), retryWithBackoff (frontend lib/retry.ts and backend    *)
(* RetryService), their composition in ApiClient, and MetricsService.      *)
(* Each component has its own specification:                               *)
(*   SpecQueue    the queue: initializeQueue, enqueue, task settlement,    *)
(*                the drain's completion callback, clearQueue              *)
(*   SpecBreaker  the breaker: fire, the wrapped call's outcomes, the      *)
(*                per-call timer, reset, the clock                         *)
(*   SpecRetry    one retryWithBackoff call: the attempts, the catch       *)
(*                block, the sleeps                                        *)
(*   SpecApi      ApiClient.request: retryWithBackoff around the           *)
(*                breaker's fire, with the options ApiClient passes        *)
(*   SpecMetrics  recordMetric, recordHistogram, getHistogramStats, reset  *)
(*   SpecStats    getHistogramStats over given histograms                  *)
(*   SpecHealth   PerformanceInterceptor, HealthController.getMetrics      *)
(*   SpecInterceptor  the frontend's axios response interceptor            *)
(***************************************************************************)
EXTENDS Integers, Sequences, FiniteSets, TLC

(***************************************************************************)
(* Bounds of the queue model.                                              *)
(***************************************************************************)
MaxTasks == 4          \* enqueue calls in one run
MaxArrays == 2         \* queue arrays created in one run (initializations)
MaxConcurrency == 2    \* largest concurrency passed to initializeQueue
MaxMaxSize == 2        \* largest maxSize passed to initializeQueue

\* Defaults of initializeQueue's parameters.
DefaultConcurrency == 5
DefaultMaxSize == 1000

Names == {"q1", "q2"}
Priorities == {5, 10}
Outcomes == {"ok", "err", "nullErr"}   \* resolves; rejects with an Error; rejects with null
TaskIds == 1..MaxTasks

Min(a, b) == IF a <= b THEN a ELSE b

VARIABLES
  queues,        \* queues[n]: the array this.queues maps n to (0: no entry)
  arrays,        \* arrays[n][g]: the waiting items (task ids) of n's g-th array
  processing,    \* this.processing
  concurrency,   \* this.concurrency
  maxQueueSize,  \* this.maxQueueSize
  items,         \* items[t]: the QueueItem of the t-th enqueue call, while it is live
  handles,       \* handles[t]: the promise the t-th enqueue call returned
  drain,         \* drain[i]: the locals of the processQueue call that started i first
  nextId         \* the next enqueue call

qvars == <<queues, arrays, processing, concurrency, maxQueueSize, items, handles, drain,
          nextId>>

\* The circuit breaker's state.
VARIABLES
  state,            \* this.state.state
  failures,         \* this.state.failures
  successes,        \* this.state.successes
  lastFailureTime,  \* this.state.lastFailureTime (0: undefined)
  options,          \* this.options
  now,              \* Date.now()
  inflight,         \* the fire() calls between their admission and fn's settlement
  fired,            \* fire() calls made
  invoked,          \* calls of the wrapped fn made
  streak            \* history: the successes counted since the last failure

bvars == <<state, failures, successes, lastFailureTime, options, now, inflight, fired, invoked,
          streak>>

\* One retryWithBackoff call.
VARIABLES
  side,             \* "frontend": lib/retry.ts; "backend": RetryService
  ropts,            \* the destructured options
  retry             \* the call's locals and what it has done so far

rvars == <<side, ropts, retry>>

\* ApiClient.
VARIABLES
  requests          \* requests[r]: the r-th request() call

avars == <<requests>>

\* MetricsService.
VARIABLES
  metrics,          \* this.metrics
  histograms,       \* this.histograms: values by key (<<>>: no entry)
  metricLog,        \* history: every sample recordMetric was given, in order
  histogramLog,     \* history: every value recordHistogram was given, by key, in order
  stats             \* what the last getHistogramStats returned

mvars == <<metrics, histograms, metricLog, histogramLog, stats>>

\* MetricsService's counters, and the HTTP requests behind them.
VARIABLES
  counters,         \* this.counters: value by key (0: no entry)
  served,           \* history: the requests PerformanceInterceptor has seen end
  payload           \* what the last HealthController.getMetrics returned

hvars == <<counters, served, payload>>

\* One request made through the frontend's api instance.
VARIABLES
  xfer,             \* the request: its sends, the config in flight, its outcome
  frames            \* the response-interceptor calls that await a re-send, outermost first

ivars == <<xfer, frames>>

vars == <<qvars, bvars, rvars, avars, mvars, hvars, ivars>>

\* What a step of one component leaves alone
notQueue == <<bvars, rvars, avars, mvars, hvars, ivars>>
notBreaker == <<qvars, rvars, avars, mvars, hvars, ivars>>
notRetry == <<qvars, bvars, avars, mvars, hvars, ivars>>
notApi == <<qvars, rvars, mvars, hvars, ivars>>
notMetrics == <<qvars, bvars, rvars, avars, hvars, ivars>>
notHealth == <<qvars, bvars, rvars, avars, ivars>>
notInterceptor == <<qvars, bvars, rvars, avars, mvars, hvars>>

NoItem == [queueName |-> "", priority |-> 0, task |-> "none", inv |-> 0]
NoDrain == [queueName |-> "", queue |-> 0, activeWorkers |-> 0, concurrency |-> 0]

(***************************************************************************)
(* The other components as they are constructed.  A specification of one   *)
(* component starts the others so and leaves them alone.                   *)
(***************************************************************************)
MaxRequests == 3       \* ApiClient.request calls in one run

\* const { maxAttempts = 3, initialDelay = 1000, maxDelay = 10000, factor = 2,
\*         jitter = true, retryable = ... } = options
DefaultMaxAttempts == 3
DefaultInitialDelay == 1000
DefaultMaxDelay == 10000
DefaultFactor == 2
DefaultJitter == TRUE

RequestIds == 1..MaxRequests
MetricNames == {"a", "b"}

\* The tags argument of the MetricsService methods.  A tags object stands as
\* the text JSON.stringify gives for it; the interceptor's { method, route }
\* differ by the route only.
NoTags == ""
Routes == {"GET /a", "GET /b"}
TagInputs == {NoTags} \cup Routes

\* The metric names PerformanceInterceptor and HealthController use
HttpDuration == "http.request.duration"
HttpError == "http.request.error"
HttpTotal == "http.requests.total"
HttpErrors == "http.requests.errors"

\* tags ? JSON.stringify(tags) : ''
TagStr(tags) == IF tags = NoTags THEN "" ELSE tags

\* getHistogramKey(name, tags): `${name}:${tagStr}`, as the pair of its parts
getHistogramKey(name, tags) == <<name, TagStr(tags)>>

\* getCounterKey(name, tags): `${name}:${tagStr}`, as the pair of its parts
getCounterKey(name, tags) == <<name, TagStr(tags)>>

\* The keys the runs can make
HistogramKeys == {getHistogramKey(n, t) : n \in MetricNames \cup {HttpDuration}, t \in TagInputs}
CounterKeys == {getCounterKey(n, t) : n \in {HttpTotal, HttpErrors}, t \in TagInputs}

\* retryWithBackoff's locals before the call: no attempt made
RetryIdle == [phase |-> "idle", attempt |-> 0, sleeps |-> <<>>, invocations |-> 0,
              errors |-> <<>>, outcome |-> "none"]

\* A request() call not yet made: retryWithBackoff's locals, the time its
\* sleep ends, the fire() call it awaits, the fire() calls it has made, and
\* whether the breaker rejected calls when it was made
RequestIdle == [phase |-> "idle", attempt |-> 0, sleeps |-> <<>>, invocations |-> 0,
                errors |-> <<>>, outcome |-> "none",
                wake |-> 0, call |-> 0, fires |-> 0, openAtStart |-> FALSE]

\* getHistogramStats has not been called, or returned null
NoStats == [count |-> 0, min |-> 0, max |-> 0, sum |-> 0, p50 |-> 0, p95 |-> 0, p99 |-> 0]

\* getMetrics has not been called.  ok and failed are history: the requests
\* the interceptor had seen end when the payload was made.
NoPayload == [called |-> FALSE, httpRequests |-> 0, httpErrors |-> 0,
              httpRequestDuration |-> NoStats, ok |-> 0, failed |-> 0]

QueueUnused ==
  /\ queues = [n \in Names |-> 0]
  /\ arrays = [n \in Names |-> [g \in 1..MaxArrays |-> <<>>]]
  /\ processing = [n \in Names |-> FALSE]
  /\ concurrency = [n \in Names |-> 0]
  /\ maxQueueSize = [n \in Names |-> 0]
  /\ items = [t \in TaskIds |-> [queueName |-> "", priority |-> 0, task |-> "none", inv |-> 0]]
  /\ handles = [t \in TaskIds |-> "none"]
  /\ drain = [t \in TaskIds |->
                [queueName |-> "", queue |-> 0, activeWorkers |-> 0, concurrency |-> 0]]
  /\ nextId = 1

BreakerUnused ==
  /\ state = "closed"
  /\ failures = 0
  /\ successes = 0
  /\ lastFailureTime = 0
  /\ options = [errorThresholdPercentage |-> 50, resetTimeout |-> 1, timeout |-> 1]
  /\ now = 1
  /\ inflight = {}
  /\ fired = 0
  /\ invoked = 0
  /\ streak = 0

RetryUnused ==
  /\ side = "frontend"
  /\ ropts = [maxAttempts |-> DefaultMaxAttempts, initialDelay |-> DefaultInitialDelay,
              maxDelay |-> DefaultMaxDelay, factor |-> DefaultFactor,
              jitter |-> DefaultJitter, retryable |-> "default"]
  /\ retry = RetryIdle

ApiUnused == requests = [r \in RequestIds |-> RequestIdle]

MetricsUnused ==
  /\ metrics = <<>>
  /\ histograms = [k \in HistogramKeys |-> <<>>]
  /\ metricLog = <<>>
  /\ histogramLog = [k \in HistogramKeys |-> <<>>]
  /\ stats = NoStats

HealthUnused ==
  /\ counters = [k \in CounterKeys |-> 0]
  /\ served = [ok |-> 0, failed |-> 0]
  /\ payload = NoPayload

\* No request made: method is the request's, retryFlag the _retry of the
\* config in flight; sends, recoveries, first and recovery are history
XferIdle == [phase |-> "idle", method |-> "get", retryFlag |-> FALSE, sends |-> 0,
             recoveries |-> 0, first |-> "none", recovery |-> "none", outcome |-> "none"]

InterceptorUnused ==
  /\ xfer = XferIdle
  /\ frames = <<>>

\* The service's fields and the items as one value, so that a handler is a
\* function from values to values and calls compose.
St == [queues |-> queues, arrays |-> arrays, processing |-> processing,
       concurrency |-> concurrency, maxQueueSize |-> maxQueueSize,
       items |-> items, handles |-> handles, drain |-> drain]

Commit(s) ==
  /\ queues' = s.queues
  /\ arrays' = s.arrays
  /\ processing' = s.processing
  /\ concurrency' = s.concurrency
  /\ maxQueueSize' = s.maxQueueSize
  /\ items' = s.items
  /\ handles' = s.handles
  /\ drain' = s.drain

\* this.queues.has(n)
Has(s, n) == s.queues[n] # 0

\* this.queues.get(n), for a name that has an entry
Queue(s, n) == s.arrays[n][s.queues[n]]

\* initializeQueue(queueName, concurrency, maxSize): a fresh empty array
initializeQueue(s, n, c, m) ==
  [s EXCEPT !.queues[n] = @ + 1,
            !.arrays[n][s.queues[n] + 1] = <<>>,
            !.processing[n] = FALSE,
            !.concurrency[n] = c,
            !.maxQueueSize[n] = m]

\* Mutant of FindIndex: the comparison admits equal priorities.
FindIndexNotStable(s, q, p) ==
  LET hits == {i \in 1..Len(q) : s.items[q[i]].priority <= p}
  IN IF hits = {} THEN 0 ELSE CHOOSE i \in hits : \A j \in hits : i <= j

\* queue.findIndex((q) => q.priority < priority), 1-based; 0 for -1
FindIndex(s, q, p) ==
  LET hits == {i \in 1..Len(q) : s.items[q[i]].priority < p}
  IN IF hits = {} THEN 0 ELSE CHOOSE i \in hits : \A j \in hits : i <= j

\* Mutant of InsertItem: the item is always pushed at the end.
InsertItemAtEnd(s, q, t, p) == Append(q, t)

\* queue.push(item) or queue.splice(index, 0, item)
InsertItem(s, q, t, p) ==
  LET index == FindIndex(s, q, p)
  IN IF index = 0 THEN Append(q, t)
     ELSE SubSeq(q, 1, index - 1) \o <<t>> \o SubSeq(q, index, Len(q))

\* The number of items one processQueue call shifts off and starts:
\* while (queue.length > 0 && activeWorkers < concurrency)
StartCount(len, c) == IF c <= 0 THEN 0 ELSE Min(len, c)

\* processQueue(queueName).  The loop starts each shifted item at once
\* (executeTask runs item.task() before its first await).
processQueue(s, n) ==
  IF ~Has(s, n) \/ Len(Queue(s, n)) = 0 THEN s
  ELSE IF s.processing[n] THEN s
  ELSE
    LET q == Queue(s, n)
        c == s.concurrency[n]
        k == StartCount(Len(q), c)
        started == {q[i] : i \in 1..k}
    IN IF k = 0 THEN [s EXCEPT !.processing[n] = FALSE]
       ELSE [s EXCEPT
               !.processing[n] = TRUE,
               !.arrays[n][s.queues[n]] = SubSeq(q, k + 1, Len(q)),
               !.items = [t \in TaskIds |->
                            IF t \in started
                            THEN [s.items[t] EXCEPT !.task = "running", !.inv = q[1]]
                            ELSE s.items[t]],
               !.drain[q[1]] = [queueName |-> n, queue |-> s.queues[n],
                                activeWorkers |-> k, concurrency |-> c]]

\* Mutant of IsFull: the bound is off by one.
IsFullOffByOne(len, maxSize) == len > maxSize

\* if (queue.length >= maxSize) throw
IsFull(len, maxSize) == len >= maxSize

\* enqueue(queueName, task, priority), the t-th call
enqueue(s, n, t, p) ==
  LET s1 == IF ~Has(s, n)
            THEN initializeQueue(s, n, DefaultConcurrency, DefaultMaxSize)
            ELSE s
      q == Queue(s1, n)
  IN IF IsFull(Len(q), s1.maxQueueSize[n])
     THEN [s1 EXCEPT !.handles[t] = "full"]
     ELSE
       LET s2 == [s1 EXCEPT
                    !.items[t] = [queueName |-> n, priority |-> p, task |-> "queued",
                                  inv |-> 0],
                    !.handles[t] = "pending",
                    !.arrays[n][s1.queues[n]] = InsertItem(s1, q, t, p)]
       IN processQueue(s2, n)

\* Mutant of clearQueue: the array is emptied and no handle is rejected.
clearQueueNoReject(s, n) ==
  IF ~Has(s, n) THEN s
  ELSE [s EXCEPT !.arrays[n][s.queues[n]] = <<>>]

\* item.reject(new Error('Queue cleared')) for each item, then queue.length = 0
clearQueue(s, n) ==
  IF ~Has(s, n) THEN s
  ELSE
    LET q == Queue(s, n)
        inq == {q[i] : i \in 1..Len(q)}
    IN [s EXCEPT
          !.items = [t \in TaskIds |-> IF t \in inq THEN NoItem ELSE s.items[t]],
          !.handles = [t \in TaskIds |-> IF t \in inq THEN "cleared" ELSE s.handles[t]],
          !.arrays[n][s.queues[n]] = <<>>]

\* executeTask after its await: item.resolve(result), or the catch block.
\* The catch block reads error.stack before item.reject(error): for a task
\* that rejected with null or undefined that read throws a TypeError, which
\* leaves the catch block before item.reject and rejects executeTask's own
\* promise (and so the worker promise, which nothing awaits).
settleTask(s, t, o) ==
  [s EXCEPT !.items[t].task = "settled",
            !.handles[t] = IF o = "ok" THEN "resolved"
                           ELSE IF o = "err" THEN "rejected"
                           ELSE @]

\* May the completion callback call processQueue:
\* queue.length > 0 && activeWorkers < concurrency
MayContinue(len, active, c) == len > 0 /\ active < c

\* The .finally callback of the worker of item t
workerFinally(s, t) ==
  LET i == s.items[t].inv
      d == s.drain[i]
      n == d.queueName
      active == d.activeWorkers - 1
      s1 == [s EXCEPT !.items[t] = NoItem,
                      !.drain[i] = IF active = 0 THEN NoDrain
                                   ELSE [@ EXCEPT !.activeWorkers = active]]
  IN IF MayContinue(Len(s.arrays[n][d.queue]), active, d.concurrency)
     THEN processQueue(s1, n)
     ELSE IF active = 0 THEN [s1 EXCEPT !.processing[n] = FALSE]
     ELSE s1

QInit ==
  /\ queues = [n \in Names |-> 0]
  /\ arrays = [n \in Names |-> [g \in 1..MaxArrays |-> <<>>]]
  /\ processing = [n \in Names |-> FALSE]
  /\ concurrency = [n \in Names |-> 0]
  /\ maxQueueSize = [n \in Names |-> 0]
  /\ items = [t \in TaskIds |-> NoItem]
  /\ handles = [t \in TaskIds |-> "none"]
  /\ drain = [t \in TaskIds |-> NoDrain]
  /\ nextId = 1
  /\ state = "closed"
  /\ failures = 0
  /\ successes = 0
  /\ lastFailureTime = 0
  /\ options = [errorThresholdPercentage |-> 50, resetTimeout |-> 1, timeout |-> 1]
  /\ now = 1
  /\ inflight = {}
  /\ fired = 0
  /\ invoked = 0
  /\ streak = 0
  /\ RetryUnused
  /\ ApiUnused
  /\ MetricsUnused
  /\ HealthUnused
  /\ InterceptorUnused

\* The arrays created so far, over all names
ArraysCreated == Cardinality({ng \in Names \X (1..MaxArrays) : ng[2] <= queues[ng[1]]})

InitializeQueue(n, c, m) ==
  /\ ArraysCreated < MaxArrays
  /\ Commit(initializeQueue(St, n, c, m))
  /\ UNCHANGED <<nextId, notQueue>>

Enqueue(n, p) ==
  /\ nextId <= MaxTasks
  /\ queues[n] = 0 => ArraysCreated < MaxArrays
  /\ Commit(enqueue(St, n, nextId, p))
  /\ nextId' = nextId + 1
  /\ UNCHANGED notQueue

TaskSettles(t, o) ==
  /\ items[t].task = "running"
  /\ Commit(settleTask(St, t, o))
  /\ UNCHANGED <<nextId, notQueue>>

WorkerFinally(t) ==
  /\ items[t].task = "settled"
  /\ Commit(workerFinally(St, t))
  /\ UNCHANGED <<nextId, notQueue>>

ClearQueue(n) ==
  /\ Commit(clearQueue(St, n))
  /\ UNCHANGED <<nextId, notQueue>>

QNext ==
  \/ \E n \in Names, c \in 1..MaxConcurrency, m \in 1..MaxMaxSize : InitializeQueue(n, c, m)
  \/ \E n \in Names, p \in Priorities : Enqueue(n, p)
  \/ \E t \in TaskIds, o \in Outcomes : TaskSettles(t, o)
  \/ \E t \in TaskIds : WorkerFinally(t)
  \/ \E n \in Names : ClearQueue(n)

SpecQueue == QInit /\ [][QNext]_vars


(***************************************************************************)
(* The circuit breaker (frontend CircuitBreaker).  Time is counted in      *)
(* ticks of the clock Date.now() reads.                                    *)
(***************************************************************************)
MaxCalls == 6          \* fire() calls in one run
MaxInFlight == 2       \* fire() calls in flight together
MaxTime == 4           \* the clock's last tick
MaxResetTimeout == 2   \* largest options.resetTimeout
MaxTimeout == 2        \* largest options.timeout

\* options.errorThresholdPercentage || 50
DefaultErrorThresholdPercentage == 50
\* if (this.state.successes >= 5)
SuccessesToForget == 5

\* The errorThresholdPercentage the constructor is given (0: not given)
PercentageInputs == {0, 10, 15}


\* options.errorThresholdPercentage || 50
ResolvePercentage(given) == IF given = 0 THEN DefaultErrorThresholdPercentage ELSE given

\* Math.ceil(x / 100 * 10)
CeilTenths(pct) == (pct * 10 + 99) \div 100

\* this.failureThreshold
failureThreshold == CeilTenths(options.errorThresholdPercentage)

\* Mutant of CooldownElapsed: the comparison admits the last instant of the cooldown.
CooldownElapsedInclusive(t, last, resetTimeout) == t - last >= resetTimeout

\* Date.now() - (this.state.lastFailureTime || 0) > this.options.resetTimeout
CooldownElapsed(t, last, resetTimeout) == t - last > resetTimeout

\* Mutant of Trips: the threshold itself does not open the breaker.
TripsAbove(f, threshold) == f > threshold

\* if (this.state.failures >= this.failureThreshold)
Trips(f, threshold) == f >= threshold

\* Mutant of ClosesOnSuccess: a success closes the breaker whenever it is not closed.
ClosesWhenNotClosed(st) == st # "closed"

\* if (this.state.state === 'halfOpen')
ClosesOnSuccess(st) == st = "halfOpen"

\* The success path of fire(), after the await
OnSuccess ==
  IF ClosesOnSuccess(state)
  THEN /\ state' = "closed"
       /\ failures' = 0
       /\ successes' = 0
       /\ streak' = Min(streak + 1, SuccessesToForget)
       /\ UNCHANGED lastFailureTime
  ELSE /\ successes' = successes + 1
       /\ failures' = IF successes + 1 >= SuccessesToForget THEN 0 ELSE failures
       /\ streak' = Min(streak + 1, SuccessesToForget)
       /\ UNCHANGED <<state, lastFailureTime>>

\* The catch block of fire()
OnFailure ==
  /\ failures' = failures + 1
  /\ lastFailureTime' = now
  /\ state' = IF Trips(failures + 1, failureThreshold) THEN "open" ELSE state
  /\ streak' = 0
  /\ UNCHANGED successes

BInit ==
  /\ state = "closed"
  /\ failures = 0
  /\ successes = 0
  /\ lastFailureTime = 0
  /\ \E given \in PercentageInputs, r \in 1..MaxResetTimeout, t \in 1..MaxTimeout :
       options = [errorThresholdPercentage |-> ResolvePercentage(given),
                  resetTimeout |-> r, timeout |-> t]
  /\ now = 1
  /\ inflight = {}
  /\ fired = 0
  /\ invoked = 0
  /\ streak = 0
  /\ RetryUnused
  /\ ApiUnused
  /\ MetricsUnused
  /\ HealthUnused
  /\ InterceptorUnused
  /\ queues = [n \in Names |-> 0]
  /\ arrays = [n \in Names |-> [g \in 1..MaxArrays |-> <<>>]]
  /\ processing = [n \in Names |-> FALSE]
  /\ concurrency = [n \in Names |-> 0]
  /\ maxQueueSize = [n \in Names |-> 0]
  /\ items = [t \in TaskIds |-> NoItem]
  /\ handles = [t \in TaskIds |-> "none"]
  /\ drain = [t \in TaskIds |-> NoDrain]
  /\ nextId = 1

\* fire(): rejected while open within the cooldown, else fn is invoked
Fire ==
  /\ fired < MaxCalls
  /\ Cardinality(inflight) < MaxInFlight
  /\ fired' = fired + 1
  /\ UNCHANGED <<failures, successes, lastFailureTime, options, now, streak, notBreaker>>
  /\ IF state = "open" /\ ~CooldownElapsed(now, lastFailureTime, options.resetTimeout)
     THEN UNCHANGED <<state, inflight, invoked>>
     ELSE /\ state' = IF state = "open" THEN "halfOpen" ELSE state
          /\ invoked' = invoked + 1
          /\ inflight' = inflight \cup
               {[id |-> fired + 1,
                 via |-> IF state = "open" THEN "trial" ELSE state,
                 start |-> now,
                 phase |-> "racing"]}

\* The timer of call c is due: setTimeout(..., this.options.timeout)
TimerDue(c) == now - c.start >= options.timeout

\* fn can still win the race: the timer is not yet due, or is due at this very tick
CanWinRace(c) == now - c.start <= options.timeout

\* fn resolves before the timer: Promise.race resolves
FnResolves(c) ==
  /\ c \in inflight /\ c.phase = "racing"
  /\ CanWinRace(c)
  /\ OnSuccess
  /\ inflight' = inflight \ {c}
  /\ UNCHANGED <<options, now, fired, invoked, notBreaker>>

\* fn rejects before the timer: Promise.race rejects with fn's error
FnRejects(c) ==
  /\ c \in inflight /\ c.phase = "racing"
  /\ CanWinRace(c)
  /\ OnFailure
  /\ inflight' = inflight \ {c}
  /\ UNCHANGED <<options, now, fired, invoked, notBreaker>>

\* The timer of setTimeout(..., this.options.timeout) fires first: fn runs on
TimerFires(c) ==
  /\ c \in inflight /\ c.phase = "racing"
  /\ TimerDue(c)
  /\ OnFailure
  /\ inflight' = (inflight \ {c}) \cup {[c EXCEPT !.phase = "timedOut"]}
  /\ UNCHANGED <<options, now, fired, invoked, notBreaker>>

\* Mutant of FnSettlesLate: the late settlement is counted as a success.
FnSettlesLateCounted(c) ==
  /\ c \in inflight /\ c.phase = "timedOut"
  /\ OnSuccess
  /\ inflight' = inflight \ {c}
  /\ UNCHANGED <<options, now, fired, invoked, notBreaker>>

\* fn settles after its call timed out: the race is already decided
FnSettlesLate(c) ==
  /\ c \in inflight /\ c.phase = "timedOut"
  /\ inflight' = inflight \ {c}
  /\ UNCHANGED <<state, failures, successes, lastFailureTime, options, now, fired, invoked,
                 streak, notBreaker>>

\* Mutant of Reset: successCount survives the reset.
ResetKeepsSuccesses ==
  /\ state' = "closed"
  /\ failures' = 0
  /\ lastFailureTime' = 0
  /\ streak' = 0
  /\ UNCHANGED <<successes, options, now, inflight, fired, invoked, notBreaker>>

\* reset()
Reset ==
  /\ state' = "closed"
  /\ failures' = 0
  /\ successes' = 0
  /\ lastFailureTime' = 0
  /\ streak' = 0
  /\ UNCHANGED <<options, now, inflight, fired, invoked, notBreaker>>

\* The clock advances; a timer that is due fires before it does
Tick ==
  /\ now < MaxTime
  /\ \A c \in inflight : c.phase = "racing" => ~TimerDue(c)
  /\ now' = now + 1
  /\ UNCHANGED <<state, failures, successes, lastFailureTime, options, inflight, fired,
                 invoked, streak, notBreaker>>

BNext ==
  \/ Fire
  \/ \E c \in inflight : FnResolves(c)
  \/ \E c \in inflight : FnRejects(c)
  \/ \E c \in inflight : TimerFires(c)
  \/ \E c \in inflight : FnSettlesLate(c)
  \/ Reset
  \/ Tick

SpecBreaker == BInit /\ [][BNext]_vars

(***************************************************************************)
(* retryWithBackoff (frontend lib/retry.ts, backend RetryService).  The    *)
(* two functions differ in their logging and in the name of the predicate  *)
(* option.  Delays are in milliseconds.                                    *)
(***************************************************************************)
MaxMaxAttempts == 3    \* largest maxAttempts a caller passes

\* An option the caller leaves out
NotGiven == -1

\* A destructuring default: const { x = d } = options
Default(given, d) == IF given = NotGiven THEN d ELSE given

\* The options a caller passes
MaxAttemptsInputs == {NotGiven} \cup (0..MaxMaxAttempts)
InitialDelayInputs == {NotGiven, 100}
MaxDelayInputs == {NotGiven, 150}
FactorInputs == {NotGiven, 1}
RetryableInputs == {"default", "apiClient"}
Sides == {"frontend", "backend"}

\* What the operation rejects with: an error object without a response (a
\* network error), or one with the response of that status
ErrorValues == {"network", "http400", "http429", "http499", "http500", "http503", "http599",
                "http600"}

\* What the operation resolves with
ResultValues == {"v1", "v2"}

\* error.response.status (0: the error has no response)
Status(e) ==
  CASE e = "http400" -> 400
    [] e = "http401" -> 401
    [] e = "http403" -> 403
    [] e = "http429" -> 429
    [] e = "http499" -> 499
    [] e = "http500" -> 500
    [] e = "http503" -> 503
    [] e = "http599" -> 599
    [] e = "http600" -> 600
    [] OTHER -> 0

\* error.response
HasResponse(e) == Status(e) # 0

\* The default of lib/retry.ts
DefaultRetryableFrontend(e) ==
  IF ~HasResponse(e) THEN TRUE
  ELSE Status(e) >= 500 /\ Status(e) < 600

\* Mutant of DefaultRetryableBackend: the upper bound is inclusive.
DefaultRetryableBackendInclusive(e) ==
  ~HasResponse(e) \/ (Status(e) >= 500 /\ Status(e) <= 600)

\* The default of RetryService
DefaultRetryableBackend(e) ==
  ~HasResponse(e) \/ (Status(e) >= 500 /\ Status(e) < 600)

\* The predicate ApiClient.request passes
ApiClientRetryable(e) ==
  IF HasResponse(e)
  THEN Status(e) = 429 \/ (Status(e) >= 500 /\ Status(e) < 600)
  ELSE TRUE

\* retryable(error) / retryableErrors(error)
Retryable(sd, pred, e) ==
  CASE pred = "default" ->
         IF sd = "frontend" THEN DefaultRetryableFrontend(e) ELSE DefaultRetryableBackend(e)
    [] pred = "apiClient" -> ApiClientRetryable(e)

\* Math.pow(b, n) for integers b and n >= 0
RECURSIVE Pow(_, _)
Pow(b, n) == IF n = 0 THEN 1 ELSE b * Pow(b, n - 1)

\* Mutant of BaseDelay: the exponent is the attempt, not the attempt less one.
BaseDelayFromAttempt(o, attempt) ==
  Min(o.initialDelay * Pow(o.factor, attempt), o.maxDelay)

\* Math.min(initialDelay * Math.pow(factor, attempt - 1), maxDelay)
BaseDelay(o, attempt) ==
  Min(o.initialDelay * Pow(o.factor, attempt - 1), o.maxDelay)

\* jitter ? Math.random() * 0.3 * baseDelay : 0, for Math.random() of 0 and 0.5
JitterAmounts(o, base) == IF o.jitter THEN {0, (3 * base) \div 20} ELSE {0}

\* Mutant of IsLastAttempt: the attempt before the last one counts as the last.
IsLastAttemptEarly(attempt, maxAttempts) == attempt >= maxAttempts - 1

\* if (attempt === maxAttempts)
IsLastAttempt(attempt, maxAttempts) == attempt = maxAttempts

\* lastError (undefined before the first failure)
LastError(r) == IF r.errors = <<>> THEN "undefined" ELSE r.errors[Len(r.errors)]

\* The loop's test and the attempt it starts: attempt <= maxAttempts, then
\* await fn(); past the loop, throw lastError
enterAttempt(r, o, a) ==
  IF a <= o.maxAttempts
  THEN [r EXCEPT !.phase = "awaiting", !.attempt = a, !.invocations = @ + 1]
  ELSE [r EXCEPT !.phase = "rejected", !.outcome = LastError(r)]

\* Mutant of retryCatch: the last-attempt test comes before the predicate, and
\* an error the predicate refuses is retried like any other.
retryCatchIgnoresPredicate(r, o, sd, e, j) ==
  LET r1 == [r EXCEPT !.errors = Append(@, e)]
  IN IF IsLastAttempt(r.attempt, o.maxAttempts)
     THEN [r1 EXCEPT !.phase = "rejected", !.outcome = e]
     ELSE [r1 EXCEPT !.phase = "sleeping",
                     !.sleeps = Append(@, BaseDelay(o, r.attempt) + j)]

\* The catch block of one attempt, for the error e and the jitter amount j
retryCatch(r, o, sd, e, j) ==
  LET r1 == [r EXCEPT !.errors = Append(@, e)]
  IN IF ~Retryable(sd, o.retryable, e)
     THEN [r1 EXCEPT !.phase = "rejected", !.outcome = e]
     ELSE IF IsLastAttempt(r.attempt, o.maxAttempts)
     THEN [r1 EXCEPT !.phase = "rejected", !.outcome = e]
     ELSE [r1 EXCEPT !.phase = "sleeping",
                     !.sleeps = Append(@, BaseDelay(o, r.attempt) + j)]

RInit ==
  /\ side \in Sides
  /\ \E m \in MaxAttemptsInputs, i \in InitialDelayInputs, d \in MaxDelayInputs,
        f \in FactorInputs, jit \in BOOLEAN, pred \in RetryableInputs :
       ropts = [maxAttempts |-> Default(m, DefaultMaxAttempts),
                initialDelay |-> Default(i, DefaultInitialDelay),
                maxDelay |-> Default(d, DefaultMaxDelay),
                factor |-> Default(f, DefaultFactor),
                jitter |-> jit,
                retryable |-> pred]
  /\ retry = RetryIdle
  /\ QueueUnused
  /\ BreakerUnused
  /\ ApiUnused
  /\ MetricsUnused
  /\ HealthUnused
  /\ InterceptorUnused

\* retryWithBackoff(fn, options) is called: the first attempt starts
RetryWithBackoff ==
  /\ retry.phase = "idle"
  /\ retry' = enterAttempt(retry, ropts, 1)
  /\ UNCHANGED <<side, ropts, notRetry>>

\* Mutant of OpResolves: the result is kept and the loop goes on.
OpResolvesAndGoesOn(v) ==
  /\ retry.phase = "awaiting"
  /\ retry' = enterAttempt([retry EXCEPT !.outcome = v], ropts, retry.attempt + 1)
  /\ UNCHANGED <<side, ropts, notRetry>>

\* fn() resolves with v: return result
OpResolves(v) ==
  /\ retry.phase = "awaiting"
  /\ retry' = [retry EXCEPT !.phase = "resolved", !.outcome = v]
  /\ UNCHANGED <<side, ropts, notRetry>>

\* fn() rejects with e: the catch block
OpRejects(e) ==
  /\ retry.phase = "awaiting"
  /\ \E j \in JitterAmounts(ropts, BaseDelay(ropts, retry.attempt)) :
       retry' = retryCatch(retry, ropts, side, e, j)
  /\ UNCHANGED <<side, ropts, notRetry>>

\* await sleep(delay) returns: attempt++ and the loop's test
SleepEnds ==
  /\ retry.phase = "sleeping"
  /\ retry' = enterAttempt(retry, ropts, retry.attempt + 1)
  /\ UNCHANGED <<side, ropts, notRetry>>

RNext ==
  \/ RetryWithBackoff
  \/ \E v \in ResultValues : OpResolves(v)
  \/ \E e \in ErrorValues : OpRejects(e)
  \/ SleepEnds

SpecRetry == RInit /\ [][RNext]_vars

(***************************************************************************)
(* ApiClient (frontend lib/api-client.ts): request() runs retryWithBackoff *)
(* around the fire() of the client's one circuit breaker.  The clock is in *)
(* milliseconds and moves from one due time to the next.                   *)
(***************************************************************************)
MaxActiveRequests == 1 \* request() calls in progress together

\* new CircuitBreaker(..., { timeout: 10000, errorThresholdPercentage: 50,
\*                           resetTimeout: 30000 })
ApiTimeout == 10000
ApiErrorThresholdPercentage == 50
ApiResetTimeout == 30000
\* retryWithBackoff(..., { maxAttempts: 3, initialDelay: 1000, factor: 2, retryable })
ApiMaxAttempts == 3
ApiInitialDelay == 1000
ApiFactor == 2

\* The options of request()'s retryWithBackoff call, destructured
ApiRetryOptions ==
  [maxAttempts |-> ApiMaxAttempts, initialDelay |-> ApiInitialDelay,
   maxDelay |-> Default(NotGiven, DefaultMaxDelay), factor |-> ApiFactor,
   jitter |-> DefaultJitter, retryable |-> "apiClient"]

\* What api(config) rejects with
ApiErrors == {"network", "http400", "http503"}

\* axios.isAxiosError(error): the breaker's own errors are plain Errors
IsAxiosError(e) == e \in {"network", "http400", "http429", "http503"}

\* error.message
Message(e) ==
  CASE e = "circuitOpen" ->
         "Circuit breaker is open. Too many failures. Please try again later."
    [] e = "timeout" -> "Request timeout"
    [] e = "network" -> "Network Error"
    [] e = "http400" -> "Request failed with status code 400"
    [] e = "http429" -> "Request failed with status code 429"
    [] e = "http503" -> "Request failed with status code 503"

\* data.message || data.error || 'An error occurred', for the body the
\* server sends with the status
DataMessage(e) ==
  CASE e = "http400" -> "Bad Request"
    [] e = "http429" -> "Too Many Requests"
    [] e = "http503" -> "Service Unavailable"

\* getErrorMessage(error)
getErrorMessage(e) ==
  IF IsAxiosError(e) /\ HasResponse(e) THEN DataMessage(e)
  ELSE IF IsAxiosError(e) THEN "Network error. Please check your connection."
  ELSE Message(e)

\* The catch block of retryWithBackoff for request rq, then that of request():
\* throw new Error(getErrorMessage(error))
apiCatch(rq, e, j) ==
  LET r1 == retryCatch(rq, ApiRetryOptions, "frontend", e, j)
  IN IF r1.phase = "rejected"
     THEN [r1 EXCEPT !.outcome = getErrorMessage(r1.outcome)]
     ELSE [r1 EXCEPT !.wake = now + r1.sleeps[Len(r1.sleeps)]]

\* fire() rejects the call: open, and the cooldown has not elapsed
Rejecting == state = "open" /\ ~CooldownElapsed(now, lastFailureTime, options.resetTimeout)

AInit ==
  /\ state = "closed"
  /\ failures = 0
  /\ successes = 0
  /\ lastFailureTime = 0
  /\ options = [errorThresholdPercentage |-> ApiErrorThresholdPercentage,
                resetTimeout |-> ApiResetTimeout, timeout |-> ApiTimeout]
  /\ now = 1
  /\ inflight = {}
  /\ fired = 0
  /\ invoked = 0
  /\ streak = 0
  /\ requests = [r \in RequestIds |-> RequestIdle]
  /\ QueueUnused
  /\ RetryUnused
  /\ MetricsUnused
  /\ HealthUnused
  /\ InterceptorUnused

\* A request() call that has settled and whose caller has moved on
RequestDone == [RequestIdle EXCEPT !.phase = "done"]

\* The requests less what is known of those that have settled
Kept ==
  [x \in RequestIds |->
     IF requests[x].phase \in {"resolved", "rejected"} THEN RequestDone ELSE requests[x]]

\* One attempt of request r, whose locals are rq: this.circuitBreaker.fire(config).
\* A rejected fire() lands in the catch block at once.
ApiAttempt(r, rq) ==
  /\ fired' = fired + 1
  /\ UNCHANGED <<failures, successes, lastFailureTime, options, now, streak>>
  /\ IF Rejecting
     THEN /\ UNCHANGED <<state, inflight, invoked>>
          /\ \E j \in JitterAmounts(ApiRetryOptions, BaseDelay(ApiRetryOptions, rq.attempt)) :
               requests' = [Kept EXCEPT
                              ![r] = apiCatch([rq EXCEPT !.fires = @ + 1], "circuitOpen", j)]
     ELSE /\ state' = IF state = "open" THEN "halfOpen" ELSE state
          /\ invoked' = invoked + 1
          /\ inflight' = inflight \cup
               {[id |-> fired + 1,
                 via |-> IF state = "open" THEN "trial" ELSE state,
                 start |-> now,
                 phase |-> "racing"]}
          /\ requests' = [Kept EXCEPT
                            ![r] = [rq EXCEPT !.fires = @ + 1, !.call = fired + 1]]

\* The request() calls in progress
Active == {r \in RequestIds : requests[r].phase \in {"awaiting", "sleeping"}}

\* request(config) is called.  The calls that settled before it are kept no
\* longer.
ApiRequest(r) ==
  /\ requests[r].phase = "idle"
  /\ \A x \in RequestIds : x < r => requests[x].phase # "idle"
  /\ Cardinality(Active) < MaxActiveRequests
  /\ ApiAttempt(r, enterAttempt([requests[r] EXCEPT !.openAtStart = Rejecting],
                                ApiRetryOptions, 1))
  /\ UNCHANGED notApi

\* The fire() call request r awaits
Awaited(r, c) ==
  /\ requests[r].phase = "awaiting"
  /\ c \in inflight
  /\ c.id = requests[r].call
  /\ c.phase = "racing"

\* api(config) resolves before the timer: return response.data
ApiResolves(r) ==
  \E c \in inflight :
    /\ Awaited(r, c)
    /\ CanWinRace(c)
    /\ OnSuccess
    /\ inflight' = inflight \ {c}
    /\ requests' = [requests EXCEPT ![r].phase = "resolved", ![r].outcome = "data"]
    /\ UNCHANGED <<options, now, fired, invoked, notApi>>

\* api(config) rejects with e before the timer
ApiRejects(r, e) ==
  \E c \in inflight :
    /\ Awaited(r, c)
    /\ CanWinRace(c)
    /\ OnFailure
    /\ inflight' = inflight \ {c}
    /\ \E j \in JitterAmounts(ApiRetryOptions,
                              BaseDelay(ApiRetryOptions, requests[r].attempt)) :
         requests' = [requests EXCEPT ![r] = apiCatch(requests[r], e, j)]
    /\ UNCHANGED <<options, now, fired, invoked, notApi>>

\* The breaker's timer fires first: fire() rejects with 'Request timeout'.
\* api(config) runs on; its settlement changes nothing (FnSettlesLate) and is
\* not followed here.
ApiTimerFires(r) ==
  \E c \in inflight :
    /\ Awaited(r, c)
    /\ TimerDue(c)
    /\ OnFailure
    /\ inflight' = inflight \ {c}
    /\ \E j \in JitterAmounts(ApiRetryOptions,
                              BaseDelay(ApiRetryOptions, requests[r].attempt)) :
         requests' = [requests EXCEPT ![r] = apiCatch(requests[r], "timeout", j)]
    /\ UNCHANGED <<options, now, fired, invoked, notApi>>

\* The sleep of request r is over: the next attempt
ApiSleepEnds(r) ==
  /\ requests[r].phase = "sleeping"
  /\ now >= requests[r].wake
  /\ ApiAttempt(r, enterAttempt(requests[r], ApiRetryOptions, requests[r].attempt + 1))
  /\ UNCHANGED notApi

\* The times at which a timer, a sleep or the cooldown runs out
DueTimes ==
  {c.start + options.timeout : c \in {x \in inflight : x.phase = "racing"}}
  \cup {requests[r].wake : r \in {x \in RequestIds : requests[x].phase = "sleeping"}}
  \cup (IF state = "open" THEN {lastFailureTime + options.resetTimeout + 1} ELSE {})

\* The clock moves to the next due time; what is due now happens before it does
Advance ==
  /\ \A c \in inflight : c.phase = "racing" => ~TimerDue(c)
  /\ \A r \in RequestIds : requests[r].phase = "sleeping" => now < requests[r].wake
  /\ \E t \in DueTimes :
       /\ t > now
       /\ \A u \in DueTimes : u > now => t <= u
       /\ now' = t
  /\ UNCHANGED <<state, failures, successes, lastFailureTime, options, inflight, fired,
                 invoked, streak, requests, notApi>>

ANext ==
  \/ \E r \in RequestIds : ApiRequest(r)
  \/ \E r \in RequestIds : ApiResolves(r)
  \/ \E r \in RequestIds, e \in ApiErrors : ApiRejects(r, e)
  \/ \E r \in RequestIds : ApiTimerFires(r)
  \/ \E r \in RequestIds : ApiSleepEnds(r)
  \/ Advance

SpecApi == AInit /\ [][ANext]_vars

(***************************************************************************)
(* MetricsService.  The two rings are modelled with small capacities in    *)
(* place of the service's 10000 and 1000; the code that fills and trims    *)
(* them is the service's.                                                  *)
(***************************************************************************)
MaxMetricCalls == 4      \* recordMetric calls between two resets
MaxHistogramCalls == 3   \* recordHistogram calls between two resets
MaxMetricsKept == 3      \* the modelled capacity of this.metrics
MaxValuesKept == 2       \* the modelled capacity of one histogram
MaxSeriesLen == 4        \* longest enumerated histogram given to getHistogramStats

\* private readonly maxMetrics = 10000
maxMetrics == 10000
\* if (histogram.values.length > 1000)
maxHistogramValues == 1000

\* The capacities in force in the model
MetricsCap == Min(maxMetrics, MaxMetricsKept)
HistogramCap == Min(maxHistogramValues, MaxValuesKept)

\* The values recorded
MetricValues == {1, 2}

\* Mutant of ShiftIfOver: the newest entry is dropped, not the oldest.
PopIfOver(seq, cap) == IF Len(seq) > cap THEN SubSeq(seq, 1, Len(seq) - 1) ELSE seq

\* if (list.length > cap) list.shift()
ShiftIfOver(seq, cap) == IF Len(seq) > cap THEN Tail(seq) ELSE seq

\* recordMetric(name, value): this.metrics afterwards
recordMetric(ms, name, value) ==
  ShiftIfOver(Append(ms, [name |-> name, value |-> value]), MetricsCap)

\* recordHistogram(name, value, tags): this.histograms afterwards
recordHistogram(hs, name, value, tags) ==
  [hs EXCEPT ![getHistogramKey(name, tags)] = ShiftIfOver(Append(@, value), HistogramCap)]

\* [...values].sort((a, b) => a - b): at place i stands the value that has
\* fewer than i values below it and at least i values not above it
SortAsc(s) ==
  [i \in 1..Len(s) |->
     CHOOSE v \in {s[j] : j \in 1..Len(s)} :
       /\ Cardinality({j \in 1..Len(s) : s[j] < v}) < i
       /\ Cardinality({j \in 1..Len(s) : s[j] <= v}) >= i]

\* values.reduce((a, b) => a + b, 0)
RECURSIVE Sum(_)
Sum(s) == IF s = <<>> THEN 0 ELSE Head(s) + Sum(Tail(s))

Max(a, b) == IF a >= b THEN a ELSE b

\* Math.ceil(a / b) for a >= 0 and b > 0
CeilDiv(a, b) == (a + b - 1) \div b

\* Mutant of percentile: the rank is rounded down, not up.
percentileFloor(sorted, p) ==
  LET index == ((p * Len(sorted)) \div 100) - 1
  IN sorted[Max(0, index) + 1]

\* percentile(sorted, p): sorted[Math.max(0, Math.ceil((p / 100) * sorted.length) - 1)];
\* sequences are indexed from 1
percentile(sorted, p) ==
  LET index == CeilDiv(p * Len(sorted), 100) - 1
  IN sorted[Max(0, index) + 1]

\* getHistogramStats(name) for the values of the histogram; avg is sum / count
getHistogramStats(values) ==
  IF values = <<>> THEN NoStats
  ELSE LET sorted == SortAsc(values)
       IN [count |-> Len(values),
           min |-> sorted[1],
           max |-> sorted[Len(sorted)],
           sum |-> Sum(values),
           p50 |-> percentile(sorted, 50),
           p95 |-> percentile(sorted, 95),
           p99 |-> percentile(sorted, 99)]

MInit ==
  /\ metrics = <<>>
  /\ histograms = [k \in HistogramKeys |-> <<>>]
  /\ metricLog = <<>>
  /\ histogramLog = [k \in HistogramKeys |-> <<>>]
  /\ stats = NoStats
  /\ HealthUnused
  /\ InterceptorUnused
  /\ QueueUnused
  /\ BreakerUnused
  /\ RetryUnused
  /\ ApiUnused

\* The recordHistogram calls made since the last reset
HistogramCalls ==
  Len(histogramLog[getHistogramKey("a", NoTags)]) + Len(histogramLog[getHistogramKey("b", NoTags)])

RecordMetric(name, value) ==
  /\ Len(metricLog) < MaxMetricCalls
  /\ metrics' = recordMetric(metrics, name, value)
  /\ metricLog' = Append(metricLog, [name |-> name, value |-> value])
  /\ UNCHANGED <<histograms, histogramLog, stats, notMetrics>>

RecordHistogram(name, value) ==
  /\ HistogramCalls < MaxHistogramCalls
  /\ histograms' = recordHistogram(histograms, name, value, NoTags)
  /\ histogramLog' = [histogramLog EXCEPT ![getHistogramKey(name, NoTags)] = Append(@, value)]
  /\ UNCHANGED <<metrics, metricLog, stats, notMetrics>>

GetHistogramStats(name) ==
  /\ stats' = getHistogramStats(histograms[getHistogramKey(name, NoTags)])
  /\ UNCHANGED <<metrics, histograms, metricLog, histogramLog, notMetrics>>

\* reset()
MetricsReset ==
  /\ metrics' = <<>>
  /\ histograms' = [k \in HistogramKeys |-> <<>>]
  /\ metricLog' = <<>>
  /\ histogramLog' = [k \in HistogramKeys |-> <<>>]
  /\ UNCHANGED <<stats, notMetrics>>

MNext ==
  \/ \E name \in MetricNames, value \in MetricValues : RecordMetric(name, value)
  \/ \E name \in MetricNames, value \in MetricValues : RecordHistogram(name, value)
  \/ \E name \in MetricNames : GetHistogramStats(name)
  \/ MetricsReset

SpecMetrics == MInit /\ [][MNext]_vars

(***************************************************************************)
(* getHistogramStats as a function of the histogram it is asked about: the *)
(* histogram "a" holds any short list of values, or the values 1..100 in   *)
(* rising or falling order.                                                *)
(***************************************************************************)
StatValues == {1, 2, 3}

SeriesInputs ==
  UNION {[1..n -> StatValues] : n \in 0..MaxSeriesLen}
  \cup {[i \in 1..100 |-> i], [i \in 1..100 |-> 101 - i]}

SInit ==
  /\ \E s \in SeriesInputs :
       /\ histograms = [k \in HistogramKeys |->
                          IF k = getHistogramKey("a", NoTags) THEN s ELSE <<>>]
       /\ histogramLog = [k \in HistogramKeys |->
                            IF k = getHistogramKey("a", NoTags) THEN s ELSE <<>>]
  /\ metrics = <<>>
  /\ metricLog = <<>>
  /\ stats = NoStats
  /\ QueueUnused
  /\ BreakerUnused
  /\ RetryUnused
  /\ ApiUnused
  /\ HealthUnused
  /\ InterceptorUnused

SNext == \E name \in MetricNames : GetHistogramStats(name)

SpecStats == SInit /\ [][SNext]_vars

(***************************************************************************)
(* PerformanceInterceptor records every HTTP request that ends in the      *)
(* MetricsService, and HealthController.getMetrics reads the service.      *)
(***************************************************************************)
MaxHttpRequests == 3     \* requests the interceptor sees end in one run

\* Date.now() - startTime
Durations == {1, 2}

\* incrementCounter(name, value, tags): this.counters afterwards
incrementCounter(cs, name, value, tags) ==
  [cs EXCEPT ![getCounterKey(name, tags)] = @ + value]

\* getCounter(name, tags): this.counters.get(key)?.value || 0
getCounter(cs, name, tags) == cs[getCounterKey(name, tags)]

HInit ==
  /\ counters = [k \in CounterKeys |-> 0]
  /\ served = [ok |-> 0, failed |-> 0]
  /\ payload = NoPayload
  /\ MetricsUnused
  /\ QueueUnused
  /\ BreakerUnused
  /\ RetryUnused
  /\ ApiUnused
  /\ InterceptorUnused

\* tap next: a request to route ends well after duration
InterceptNext(route, duration) ==
  /\ served.ok + served.failed < MaxHttpRequests
  /\ metrics' = recordMetric(metrics, HttpDuration, duration)
  /\ metricLog' = Append(metricLog, [name |-> HttpDuration, value |-> duration])
  /\ histograms' = recordHistogram(histograms, HttpDuration, duration, route)
  /\ histogramLog' = [histogramLog EXCEPT ![getHistogramKey(HttpDuration, route)] =
                                            Append(@, duration)]
  /\ counters' = incrementCounter(counters, HttpTotal, 1, route)
  /\ served' = [served EXCEPT !.ok = @ + 1]
  /\ UNCHANGED <<stats, payload, notHealth>>

\* tap error: a request to route ends with an error
InterceptError(route) ==
  /\ served.ok + served.failed < MaxHttpRequests
  /\ metrics' = recordMetric(metrics, HttpError, 1)
  /\ metricLog' = Append(metricLog, [name |-> HttpError, value |-> 1])
  /\ counters' = incrementCounter(counters, HttpErrors, 1, route)
  /\ served' = [served EXCEPT !.failed = @ + 1]
  /\ UNCHANGED <<histograms, histogramLog, stats, payload, notHealth>>

\* HealthController.getMetrics(): the http fields of the payload
GetMetrics ==
  /\ payload' = [called |-> TRUE,
                 httpRequests |-> getCounter(counters, HttpTotal, NoTags),
                 httpErrors |-> getCounter(counters, HttpErrors, NoTags),
                 httpRequestDuration |->
                   getHistogramStats(histograms[getHistogramKey(HttpDuration, NoTags)]),
                 ok |-> served.ok,
                 failed |-> served.failed]
  /\ UNCHANGED <<counters, served, mvars, notHealth>>

HNext ==
  \/ \E route \in Routes, duration \in Durations : InterceptNext(route, duration)
  \/ \E route \in Routes : InterceptError(route)
  \/ GetMetrics

SpecHealth == HInit /\ [][HNext]_vars

(***************************************************************************)
(* The response interceptor of the frontend's api instance (lib/api.ts),   *)
(* for one request.  Every send of the request whose response is an error  *)
(* runs the interceptor with the config of that send; a config made from   *)
(* originalRequest has originalRequest's own properties, _retry included.  *)
(* frames holds the interceptor calls that have re-sent the request and    *)
(* await the outcome.                                                      *)
(***************************************************************************)
MaxDepth == 2          \* interceptor calls awaiting a re-send at one time

Methods == {"get", "post"}

\* What a send of the request ends with: a response, or an error with the
\* response of that status, without a response (network), or made before
\* the request was sent (setup)
Responses == {"ok"}
InterceptorErrors == {"http401", "http403", "http429", "http503", "network", "setup"}

\* error.request
HasRequest(e) == e # "setup"

\* The options of the interceptor's retryWithBackoff calls
InterceptorRetryOptions(initialDelay) ==
  [maxAttempts |-> 3, initialDelay |-> initialDelay, maxDelay |-> DefaultMaxDelay,
   factor |-> 2, jitter |-> DefaultJitter, retryable |-> "default"]

\* Math.random() * 0.3 * baseDelay for the larger (u) or the smaller of the
\* two values of Math.random() followed
PickJitter(o, base, u) ==
  IF u THEN CHOOSE a \in JitterAmounts(o, base) : \A b \in JitterAmounts(o, base) : b <= a
  ELSE 0

\* Mutant of NotYetRetried: the _retry flag is not consulted.
NotYetRetriedAlways(flag) == TRUE

\* !originalRequest._retry
NotYetRetried(flag) == ~flag

\* The recovery the interceptor starts for the error e of a send whose
\* config has _retry = flag: "refresh", "retry2000", "retry1000" or "none"
Recovery(e, flag, method) ==
  IF HasResponse(e)
  THEN IF Status(e) = 401 /\ NotYetRetried(flag) THEN "refresh"
       ELSE IF Status(e) = 429 /\ NotYetRetried(flag) THEN "retry2000"
       ELSE IF Status(e) >= 500 /\ NotYetRetried(flag) /\ method # "get" THEN "retry1000"
       ELSE "none"
  ELSE IF HasRequest(e)
  THEN IF NotYetRetried(flag) THEN "retry1000" ELSE "none"
  ELSE "none"

\* A send of originalRequest from an interceptor call: api(originalRequest)
Resend(x) == [x EXCEPT !.phase = "sent", !.retryFlag = TRUE, !.sends = @ + 1]

\* The error e reaches the interceptor calls fs that await the send, innermost
\* last, and then the caller.  A call that re-sent after a token refresh
\* returned the re-send's promise; a call inside retryWithBackoff runs the
\* catch block of the attempt, and when retryWithBackoff gives up it logs
\* and rejects with its own error.  u picks the jitter of the sleep, if any.
RECURSIVE Reject(_, _, _, _)
Reject(x, fs, e, u) ==
  IF fs = <<>>
  THEN [xfer |-> [x EXCEPT !.phase = "rejected", !.outcome = e], frames |-> <<>>]
  ELSE
    LET top == fs[Len(fs)]
        rest == SubSeq(fs, 1, Len(fs) - 1)
    IN IF top.kind = "refresh"
       THEN Reject(x, rest, e, u)
       ELSE
         LET j == PickJitter(top.o, BaseDelay(top.o, top.r.attempt), u)
             r1 == retryCatch(top.r, top.o, "frontend", e, j)
         IN IF r1.phase = "sleeping"
            THEN [xfer |-> [x EXCEPT !.phase = "sleeping"],
                  frames |-> Append(rest, [top EXCEPT !.r = r1])]
            ELSE Reject(x, rest, top.error, u)

\* The interceptor's error handler for the error e of the send in flight
intercept(x, fs, e, u) ==
  LET kind == Recovery(e, x.retryFlag, x.method)
      x1 == [x EXCEPT !.recoveries = @ + 1,
                      !.recovery = IF kind = "refresh" THEN "refresh" ELSE "retry"]
  IN IF kind = "none" THEN Reject(x, fs, e, u)
     ELSE IF kind = "refresh"
     THEN [xfer |-> [x1 EXCEPT !.phase = "refreshing"],
           frames |-> Append(fs, [kind |-> "refresh", error |-> e, r |-> RetryIdle,
                                  o |-> InterceptorRetryOptions(0)])]
     ELSE
       LET o == InterceptorRetryOptions(IF kind = "retry2000" THEN 2000 ELSE 1000)
       IN [xfer |-> Resend(x1),
           frames |-> Append(fs, [kind |-> "retry", error |-> e,
                                  r |-> enterAttempt(RetryIdle, o, 1), o |-> o])]

XInit ==
  /\ \E m \in Methods : xfer = [XferIdle EXCEPT !.method = m]
  /\ frames = <<>>
  /\ QueueUnused
  /\ BreakerUnused
  /\ RetryUnused
  /\ ApiUnused
  /\ MetricsUnused
  /\ HealthUnused

\* The caller's api(config)
ApiSend ==
  /\ xfer.phase = "idle"
  /\ xfer' = [xfer EXCEPT !.phase = "sent", !.sends = 1]
  /\ UNCHANGED <<frames, notInterceptor>>

\* The send in flight gets a response: it passes the interceptor, every
\* awaiting interceptor call returns it, and the caller has it
SendResolves(v) ==
  /\ xfer.phase = "sent"
  /\ xfer' = [xfer EXCEPT !.phase = "resolved", !.outcome = v]
  /\ frames' = <<>>
  /\ UNCHANGED notInterceptor

\* The send in flight fails with e: the interceptor's error handler runs
SendFails(e) ==
  /\ xfer.phase = "sent"
  /\ Recovery(e, xfer.retryFlag, xfer.method) # "none" => Len(frames) < MaxDepth
  /\ \E u \in BOOLEAN :
       LET x == IF xfer.sends = 1 THEN [xfer EXCEPT !.first = e] ELSE xfer
           next == intercept(x, frames, e, u)
       IN xfer' = next.xfer /\ frames' = next.frames
  /\ UNCHANGED notInterceptor

\* refreshAccessToken() returns a token: return api(originalRequest)
RefreshSucceeds ==
  /\ xfer.phase = "refreshing"
  /\ xfer' = Resend(xfer)
  /\ UNCHANGED <<frames, notInterceptor>>

\* refreshAccessToken() returns null: the later tests do not apply to a 401
\* and the handler rejects with its error
RefreshFails ==
  /\ xfer.phase = "refreshing"
  /\ LET next == Reject(xfer, SubSeq(frames, 1, Len(frames) - 1),
                        frames[Len(frames)].error, FALSE)
     IN xfer' = next.xfer /\ frames' = next.frames
  /\ UNCHANGED notInterceptor

\* The sleep of the innermost retryWithBackoff ends: its next attempt
RetrySleepEnds ==
  /\ xfer.phase = "sleeping"
  /\ LET top == frames[Len(frames)]
     IN frames' = [frames EXCEPT ![Len(frames)].r =
                     enterAttempt(top.r, top.o, top.r.attempt + 1)]
  /\ xfer' = Resend(xfer)
  /\ UNCHANGED notInterceptor

XNext ==
  \/ ApiSend
  \/ \E v \in Responses : SendResolves(v)
  \/ \E e \in InterceptorErrors : SendFails(e)
  \/ RefreshSucceeds
  \/ RefreshFails
  \/ RetrySleepEnds

SpecInterceptor == XInit /\ [][XNext]_vars

(***************************************************************************)
(* What the queue claims speak of.                                         *)
(***************************************************************************)
\* The tasks of queue n that have been started and have not settled
Running(n) == {t \in TaskIds : items[t].queueName = n /\ items[t].task = "running"}

\* The tasks of queue n whose completion callback has yet to run
CallbackPending(n) == {t \in TaskIds : items[t].queueName = n /\ items[t].task = "settled"}

\* The items waiting in queue n: the array this.queues holds for n
Waiting(n) == IF queues[n] = 0 THEN <<>> ELSE arrays[n][queues[n]]

WaitingSet(n) == {Waiting(n)[i] : i \in 1..Len(Waiting(n))}

\* The enqueue calls made so far
Called == 1..(nextId - 1)

(***************************************************************************)
(* C1: for a queue with concurrency N >= 1, once enqueue has been called   *)
(* N+1 times with tasks that do not complete, exactly N tasks are          *)
(* executing and the remaining one waits.                                  *)
(***************************************************************************)
C1_ConcurrencyTasksExecute ==
  \A n \in Names :
    ( /\ queues[n] = 1
      /\ concurrency[n] >= 1
      /\ nextId = concurrency[n] + 2
      /\ \A t \in Called : /\ items[t].queueName = n
                           /\ items[t].task \in {"queued", "running"} )
    => /\ Cardinality(Running(n)) = concurrency[n]
       /\ Len(Waiting(n)) = 1

(***************************************************************************)
(* C2: every accepted task is eventually started, given that started tasks *)
(* settle and clearQueue is not called.  Once nothing of a queue executes  *)
(* and no completion callback is pending, nothing in the service will act  *)
(* again by itself, so by then no accepted task may still be waiting.      *)
(***************************************************************************)
C2_NoTaskLeftWaiting ==
  \A n \in Names :
    ( /\ queues[n] = 1
      /\ concurrency[n] >= 1
      /\ \A t \in TaskIds : handles[t] # "cleared"
      /\ Running(n) = {}
      /\ CallbackPending(n) = {} )
    => Len(Waiting(n)) = 0

(***************************************************************************)
(* C3: in every reachable state the tasks of one named queue that have     *)
(* been started and have not settled number at most that queue's           *)
(* configured concurrency.                                                 *)
(***************************************************************************)
C3_AtMostConcurrencyRunning ==
  \A n \in Names : queues[n] # 0 => Cardinality(Running(n)) <= concurrency[n]

StartedInStep(t) == items[t].task # "running" /\ items'[t].task = "running"

C5_FullQueueRejects ==
  [][/\ \A n \in Names : queues'[n] # 0 => Len(Waiting(n)') <= maxQueueSize'[n]
     /\ \A n \in Names, p \in Priorities :
          ( /\ Enqueue(n, p)
            /\ queues[n] # 0
            /\ Len(Waiting(n)) >= maxQueueSize[n] )
          => /\ handles'[nextId] = "full"
             /\ \A t \in TaskIds \ {nextId} : handles'[t] = handles[t]
             /\ items' = items
             /\ arrays' = arrays
             /\ drain' = drain]_qvars

\* An enqueue has been refused on a queue holding maxSize waiting items.
C5_Witness ==
  \E t \in TaskIds, n \in Names :
    /\ handles[t] = "full"
    /\ queues[n] # 0
    /\ Len(Waiting(n)) = maxQueueSize[n]
    /\ \A w \in WaitingSet(n) : handles[w] = "pending"

(***************************************************************************)
(* C6: clearQueue(n) rejects the handle of every item waiting in n with    *)
(* 'Queue cleared' and leaves n empty; executing tasks, the other queues   *)
(* and every other handle are as they were; on a name with no queue it     *)
(* changes nothing.                                                        *)
(***************************************************************************)
C6_ClearQueueFrame ==
  [][\A n \in Names :
       ClearQueue(n) =>
         IF queues[n] = 0 THEN UNCHANGED qvars
         ELSE /\ \A t \in WaitingSet(n) : handles'[t] = "cleared"
              /\ Waiting(n)' = <<>>
              /\ \A t \in TaskIds \ WaitingSet(n) :
                   handles'[t] = handles[t] /\ items'[t] = items[t]
              /\ \A m \in Names \ {n} : arrays'[m] = arrays[m]
              /\ UNCHANGED <<queues, processing, concurrency, maxQueueSize, drain>>]_qvars

\* A queue has been cleared of a waiting item while one of its tasks executes
\* and another queue holds a live item.
C6_Witness ==
  \E t, u, v \in TaskIds, n \in Names :
    /\ handles[t] = "cleared"
    /\ u \in Running(n)
    /\ Len(Waiting(n)) = 0
    /\ items[v].queueName \in Names \ {n}


(***************************************************************************)
(* What the breaker claims speak of.                                       *)
(***************************************************************************)
\* ceil(errorThresholdPercentage / 100 * 10): the least k with 100 k >= 10 pct
ClaimedThreshold ==
  CHOOSE k \in 0..10 : /\ 100 * k >= 10 * options.errorThresholdPercentage
                       /\ 100 * (k - 1) < 10 * options.errorThresholdPercentage

\* The step is the settlement of call c
Succeeds(c) == FnResolves(c)
Fails(c) == FnRejects(c) \/ TimerFires(c)

(***************************************************************************)
(* C7: the breaker goes from closed to open exactly at the failure that    *)
(* makes failureCount reach ceil(errorThresholdPercentage/100*10): it is   *)
(* never closed with failureCount at or above the threshold, and it leaves *)
(* closed only for open, by a failure that brings failureCount to the      *)
(* threshold.                                                              *)
(***************************************************************************)
C7_OpensExactlyAtThreshold ==
  [][/\ state' = "closed" => failures' < ClaimedThreshold
     /\ (state = "closed" /\ state' # "closed") =>
          /\ state' = "open"
          /\ failures' = failures + 1
          /\ failures' = ClaimedThreshold]_vars

\* The breaker has opened at a threshold of two failures.
C7_Witness ==
  /\ state = "open"
  /\ ClaimedThreshold = 2
  /\ failures = 2
  /\ successes = 0

(***************************************************************************)
(* C8: a fire() made while the breaker is open and no more than            *)
(* resetTimeout has passed since lastFailureTime is rejected without       *)
(* invoking the wrapped operation, and leaves state, failureCount,         *)
(* successCount and lastFailureTime unchanged.                             *)
(***************************************************************************)
C8_OpenRejectsWithoutInvoking ==
  [][( /\ Fire
       /\ state = "open"
       /\ now - lastFailureTime <= options.resetTimeout )
     => /\ invoked' = invoked
        /\ inflight' = inflight
        /\ UNCHANGED <<state, failures, successes, lastFailureTime>>]_vars

\* A call has been rejected at the last instant of the cooldown.
C8_Witness ==
  /\ state = "open"
  /\ fired > invoked
  /\ now - lastFailureTime = options.resetTimeout

(***************************************************************************)
(* C9: once the breaker is open and more than resetTimeout has passed, the *)
(* next fire() moves it to half-open and invokes the operation; when that  *)
(* trial call succeeds the breaker becomes closed with failureCount 0, and *)
(* when it fails the breaker becomes open with lastFailureTime refreshed,  *)
(* also when calls started earlier settle in between.                      *)
(***************************************************************************)
C9_TrialDecides ==
  [][/\ ( /\ Fire
          /\ state = "open"
          /\ now - lastFailureTime > options.resetTimeout )
        => (state' = "halfOpen" /\ invoked' = invoked + 1)
     /\ \A c \in inflight :
          (c.via = "trial" /\ c.phase = "racing") =>
            /\ Succeeds(c) => (state' = "closed" /\ failures' = 0)
            /\ Fails(c) => (state' = "open" /\ lastFailureTime' = now)]_vars

(***************************************************************************)
(* C10: but for reset(), the state changes only closed->open,              *)
(* open->half-open, half-open->closed and half-open->open.                 *)
(***************************************************************************)
AllowedTransitions ==
  {<<"closed", "open">>, <<"open", "halfOpen">>,
   <<"halfOpen", "closed">>, <<"halfOpen", "open">>}

C10_OnlyAllowedTransitions ==
  [][state' # state => (<<state, state'>> \in AllowedTransitions \/ Reset)]_vars

\* The breaker has gone closed -> open -> half-open -> closed while a call
\* started before it opened is still in flight.
C10_Witness ==
  /\ state = "closed"
  /\ failures = 0
  /\ successes = 0
  /\ lastFailureTime # 0
  /\ \E c \in inflight : c.via = "closed" /\ c.start <= lastFailureTime

(***************************************************************************)
(* C11: reset() on a breaker in any state, with any counters, yields state *)
(* closed, failureCount 0 and successCount 0; calling it twice gives the   *)
(* same state as calling it once: it leaves the fields closed, 0, 0 and no *)
(* lastFailureTime, and a breaker with those fields it leaves unchanged.   *)
(***************************************************************************)
\* The breaker's fields as reset() writes them
FieldsAsReset == state = "closed" /\ failures = 0 /\ successes = 0 /\ lastFailureTime = 0

C11_ResetClosesAndIsIdempotent ==
  [][Reset =>
       /\ state' = "closed" /\ failures' = 0 /\ successes' = 0
       /\ FieldsAsReset'
       /\ FieldsAsReset => UNCHANGED <<state, failures, successes, lastFailureTime>>]_vars

\* reset() has been called with a trial call in flight: the breaker had
\* opened and gone half-open, and is closed with its counters cleared.
C11_Witness ==
  /\ FieldsAsReset
  /\ \E c \in inflight : c.via = "trial" /\ c.phase = "racing"

(***************************************************************************)
(* What the retry claims speak of.                                         *)
(***************************************************************************)
\* min(initialDelay * factor^(k-1), maxDelay)
ClaimedDelay(k) ==
  LET grown == ropts.initialDelay * (ropts.factor ^ (k - 1))
  IN IF grown <= ropts.maxDelay THEN grown ELSE ropts.maxDelay

\* Every attempt so far failed with an error the predicate accepts
AllRetryable ==
  \A i \in 1..Len(retry.errors) : Retryable(side, ropts.retryable, retry.errors[i])

(***************************************************************************)
(* C12: with jitter disabled, the sleep between failed attempt k and       *)
(* attempt k+1 is exactly min(initialDelay * factor^(k-1), maxDelay).      *)
(* With maxAttempts=3, initialDelay=100, factor=2 an operation that fails  *)
(* twice and then succeeds resolves with its result after exactly the two  *)
(* sleeps 100 and 200; with factor=1 (and initialDelay within maxDelay)    *)
(* every sleep equals initialDelay.                                        *)
(***************************************************************************)
C12_ExactDelays ==
  [][/\ ~ropts.jitter =>
          \A k \in 1..Len(retry'.sleeps) : retry'.sleeps[k] = ClaimedDelay(k)
     /\ Len(retry'.sleeps) =
          IF retry'.phase = "sleeping" THEN retry'.attempt
          ELSE IF retry'.attempt = 0 THEN 0 ELSE retry'.attempt - 1
     /\ \A v \in ResultValues :
          ( /\ OpResolves(v)
            /\ ~ropts.jitter
            /\ ropts.maxAttempts = 3 /\ ropts.initialDelay = 100 /\ ropts.factor = 2
            /\ ropts.maxDelay >= 200
            /\ Len(retry.errors) = 2 )
          => /\ retry'.phase = "resolved"
             /\ retry'.outcome = v
             /\ retry'.sleeps = <<100, 200>>
     /\ (~ropts.jitter /\ ropts.factor = 1 /\ ropts.initialDelay <= ropts.maxDelay) =>
          \A k \in 1..Len(retry'.sleeps) : retry'.sleeps[k] = ropts.initialDelay]_vars

\* The operation failed twice and then succeeded, with the two sleeps 100 and 200.
C12_Witness ==
  /\ ~ropts.jitter
  /\ ropts.maxAttempts = 3
  /\ retry.phase = "resolved"
  /\ Len(retry.errors) = 2
  /\ retry.invocations = 3
  /\ retry.sleeps = <<100, 200>>

(***************************************************************************)
(* C13: when an attempt fails with an error for which the retryability     *)
(* predicate returns false, that error is rethrown at once: the call is    *)
(* rejected with it, the operation is invoked no further and no sleep      *)
(* occurs, whatever maxAttempts is and whichever attempt it was.           *)
(***************************************************************************)
C13_NonRetryableRethrownAtOnce ==
  [][/\ \A e \in ErrorValues :
          (OpRejects(e) /\ ~Retryable(side, ropts.retryable, e)) =>
            /\ retry'.phase = "rejected"
            /\ retry'.outcome = e
            /\ retry'.invocations = retry.invocations
            /\ retry'.sleeps = retry.sleeps
     /\ retry.phase = "rejected" => retry' = retry]_vars

\* The second of three attempts failed with a 400 and the call was rejected
\* with it, after the one sleep that followed the first failure.
C13_Witness ==
  /\ retry.phase = "rejected"
  /\ retry.outcome = "http400"
  /\ ropts.maxAttempts = 3
  /\ retry.invocations = 2
  /\ Len(retry.sleeps) = 1

(***************************************************************************)
(* C14: when the operation fails with a retryable error on every attempt   *)
(* and maxAttempts >= 1, it is invoked exactly maxAttempts times, the call *)
(* sleeps exactly maxAttempts-1 times and is then rejected with the error  *)
(* of the last attempt; with maxAttempts=1 there is a single attempt and   *)
(* no sleep.                                                               *)
(***************************************************************************)
C14_ExhaustedRejectsWithLastError ==
  (retry.phase = "rejected" /\ ropts.maxAttempts >= 1 /\ AllRetryable) =>
    /\ retry.invocations = ropts.maxAttempts
    /\ Len(retry.errors) = ropts.maxAttempts
    /\ Len(retry.sleeps) = ropts.maxAttempts - 1
    /\ retry.outcome = retry.errors[ropts.maxAttempts]

\* Three attempts failed with retryable errors, the last with another error
\* than the first, and the call was rejected with the last one.
C14_Witness ==
  /\ retry.phase = "rejected"
  /\ ropts.maxAttempts = 3
  /\ AllRetryable
  /\ Len(retry.errors) = 3
  /\ retry.errors[1] # retry.errors[3]
  /\ retry.outcome = retry.errors[3]

(***************************************************************************)
(* C15: a request() made while the breaker is open and its cooldown has    *)
(* not elapsed is rejected fast: it never sleeps for a backoff and fires   *)
(* the breaker no more than once.                                          *)
(***************************************************************************)
C15_OpenRejectsFast ==
  \A r \in RequestIds :
    requests[r].openAtStart =>
      /\ Len(requests[r].sleeps) = 0
      /\ requests[r].fires <= 1

(***************************************************************************)
(* C16: when the underlying operation fails on every attempt of one        *)
(* request(), the error that reaches the caller carries the message of the *)
(* operation's own error (as getErrorMessage reads it), not one made by    *)
(* the breaker or the retry layer, whatever the breaker's failure count    *)
(* was before the request.                                                 *)
(***************************************************************************)
\* The attempts of request r on which api(config) itself rejected
OwnFailures(r) == {i \in 1..Len(requests[r].errors) : requests[r].errors[i] \in ApiErrors}

\* The error of the last of them
LastOwnError(r) ==
  requests[r].errors[CHOOSE i \in OwnFailures(r) : \A k \in OwnFailures(r) : k <= i]

C16_OwnErrorReachesCaller ==
  \A r \in RequestIds :
    ( /\ requests[r].phase = "rejected"
      /\ OwnFailures(r) # {}
      /\ \A i \in 1..Len(requests[r].errors) : requests[r].errors[i] # "timeout" )
    => requests[r].outcome = getErrorMessage(LastOwnError(r))

(***************************************************************************)
(* C17: after any sequence of recordMetric and recordHistogram calls the   *)
(* raw sample list holds at most its capacity (at most 10000) and each     *)
(* histogram at most its capacity (at most 1000), and what is retained is  *)
(* exactly the most recently recorded entries in recording order.          *)
(***************************************************************************)
\* The last cap entries of log, or all of them
MostRecent(log, cap) ==
  IF Len(log) <= cap THEN log ELSE SubSeq(log, Len(log) - cap + 1, Len(log))

C17_RingsKeepMostRecent ==
  /\ Len(metrics) <= MetricsCap
  /\ MetricsCap <= maxMetrics
  /\ metrics = MostRecent(metricLog, MetricsCap)
  /\ HistogramCap <= maxHistogramValues
  /\ \A k \in HistogramKeys :
       /\ Len(histograms[k]) <= HistogramCap
       /\ histograms[k] = MostRecent(histogramLog[k], HistogramCap)

\* Both rings have evicted: the first sample and the first value of a
\* histogram are gone, and they differed from what followed them.
C17_Witness ==
  /\ Len(metricLog) > MetricsCap
  /\ metricLog[1] # metricLog[2]
  /\ metrics[1] = metricLog[Len(metricLog) - MetricsCap + 1]
  /\ \E k \in HistogramKeys :
       /\ Len(histogramLog[k]) > HistogramCap
       /\ histogramLog[k][1] # histogramLog[k][2]
       /\ Len(histograms[k]) = HistogramCap

(***************************************************************************)
(* C18: for a histogram with n >= 1 values, getHistogramStats returns for  *)
(* p in {50, 95, 99} the element at index max(0, ceil(p*n/100) - 1) of the *)
(* values sorted ascending, so min <= p50 <= p95 <= p99 <= max and each    *)
(* percentile is a recorded value; for the values 1..100 it returns        *)
(* p50=50, p95=95, p99=99.                                                 *)
(***************************************************************************)
\* ceil(p*n/100): the least k with 100 k >= p n
ClaimedCeil(p, n) == CHOOSE k \in 0..n : 100 * k >= p * n /\ 100 * (k - 1) < p * n

\* The element at index max(0, ceil(p*n/100) - 1), counted from 0, of the
\* values sorted ascending
ClaimedPercentile(values, p) ==
  LET index == ClaimedCeil(p, Len(values)) - 1
  IN SortAsc(values)[(IF index < 0 THEN 0 ELSE index) + 1]

C18_PercentilesByRank ==
  stats # NoStats =>
    LET values == histograms[getHistogramKey("a", NoTags)]
        recorded == {values[i] : i \in 1..Len(values)}
    IN /\ stats.count = Len(values)
       /\ stats.p50 = ClaimedPercentile(values, 50)
       /\ stats.p95 = ClaimedPercentile(values, 95)
       /\ stats.p99 = ClaimedPercentile(values, 99)
       /\ stats.min <= stats.p50 /\ stats.p50 <= stats.p95
       /\ stats.p95 <= stats.p99 /\ stats.p99 <= stats.max
       /\ \A v \in recorded : stats.min <= v /\ v <= stats.max
       /\ {stats.min, stats.p50, stats.p95, stats.p99, stats.max} \subseteq recorded
       /\ recorded = 1..100 /\ Len(values) = 100 =>
            stats.p50 = 50 /\ stats.p95 = 95 /\ stats.p99 = 99

\* The stats of the values 100, 99, ..., 1.
C18_Witness ==
  /\ Len(histograms[getHistogramKey("a", NoTags)]) = 100
  /\ histograms[getHistogramKey("a", NoTags)][1] = 100
  /\ stats.count = 100
  /\ stats.p50 = 50 /\ stats.p95 = 95 /\ stats.p99 = 99

(***************************************************************************)
(* C19: while the breaker is half-open exactly one trial call is let       *)
(* through: at most one invocation of the operation admitted in half-open  *)
(* is in flight before the trial's outcome moves the breaker.              *)
(***************************************************************************)
\* The calls admitted by the open -> half-open step or while half-open,
\* whose operation has not settled and whose timer has not fired
AdmittedHalfOpen == {c \in inflight : c.via \in {"trial", "halfOpen"} /\ c.phase = "racing"}

C19_OneTrialInFlight ==
  state = "halfOpen" => Cardinality(AdmittedHalfOpen) <= 1

(***************************************************************************)
(* C20: while the breaker is closed each success increments successCount,  *)
(* and a success resets failureCount to 0 only as the fifth or later of a  *)
(* run of successes with no failure between them; a success that follows   *)
(* the last failure by fewer than 5 successes leaves failureCount          *)
(* unchanged.                                                              *)
(***************************************************************************)
C20_ForgetsAfterFiveConsecutive ==
  [][\A c \in inflight :
       (Succeeds(c) /\ state = "closed") =>
         /\ successes' = successes + 1
         /\ streak' < SuccessesToForget => failures' = failures]_vars

(***************************************************************************)
(* C21: a fire() call whose operation has not settled when the per-call    *)
(* timeout expires rejects with the timeout error and is counted as        *)
(* exactly one breaker failure (failureCount + 1, lastFailureTime          *)
(* refreshed, successCount unchanged); the operation's own later success   *)
(* or failure changes neither the caller's outcome nor any breaker field.  *)
(***************************************************************************)
\* The calls whose caller was rejected with Error('Request timeout')
TimedOut == {c \in inflight : c.phase = "timedOut"}

C21_TimeoutIsOneFailure ==
  [][\A c \in inflight :
       /\ TimerFires(c) =>
            /\ failures' = failures + 1
            /\ lastFailureTime' = now
            /\ successes' = successes
            /\ TimedOut' = TimedOut \cup {[c EXCEPT !.phase = "timedOut"]}
       /\ FnSettlesLate(c) =>
            /\ UNCHANGED <<state, failures, successes, lastFailureTime>>
            /\ TimedOut' = TimedOut \ {c}
            /\ inflight' = inflight \ {c}]_vars

\* A call has timed out on a closed breaker with a threshold above one: it
\* is the one failure counted, at the instant its timer was due, and its
\* operation is still running.
C21_Witness ==
  /\ state = "closed"
  /\ failures = 1
  /\ successes = 0
  /\ \E c \in TimedOut : lastFailureTime = c.start + options.timeout

(***************************************************************************)
(* C28: only a call admitted while the breaker was half-open can close it: *)
(* the success of a call that started before the breaker opened and        *)
(* settles after it has become open or half-open does not move the breaker *)
(* to closed and does not reset failureCount.                              *)
(***************************************************************************)
C28_OnlyTrialCloses ==
  [][\A c \in inflight :
       (Succeeds(c) /\ c.via = "closed" /\ state \in {"open", "halfOpen"}) =>
         /\ state' # "closed"
         /\ failures' = failures]_vars

(***************************************************************************)
(* C22: the waiting items of a queue are in non-increasing priority order  *)
(* with items of equal priority in enqueue order, and what the drain       *)
(* starts is the head of that list: the items a step starts come from the  *)
(* waiting items (or are the item just enqueued), the others stay waiting, *)
(* and each started item is ahead of each item left waiting.               *)
(***************************************************************************)
\* Item a is ahead of item b: higher priority, or the same and enqueued earlier
Ahead(a, b) ==
  \/ items[a].priority > items[b].priority
  \/ (items[a].priority = items[b].priority /\ a < b)

\* The list q is in priority order, equal priorities in enqueue order
Ordered(q) == \A i, j \in 1..Len(q) : i < j => Ahead(q[i], q[j])

\* The items of queue n that the step starts
StartedOf(n) == {t \in TaskIds : StartedInStep(t) /\ items'[t].queueName = n}

\* The item of queue n that the step's enqueue accepts
AcceptedOf(n) == {t \in TaskIds : items[t] = NoItem /\ items'[t].queueName = n}

C22_WaitingOrderedHeadStarts ==
  [][/\ \A n \in Names, g \in 1..MaxArrays : Ordered(arrays[n][g])'
     /\ \A n \in Names :
          StartedOf(n) # {} =>
            /\ WaitingSet(n)' = (WaitingSet(n) \cup AcceptedOf(n)) \ StartedOf(n)
            /\ StartedOf(n) \subseteq WaitingSet(n) \cup AcceptedOf(n)
            /\ \A t \in StartedOf(n), w \in WaitingSet(n)' : Ahead(t, w)']_qvars

\* One drain has started two items of a waiting list whose head was
\* enqueued after the item behind it.
C22_Witness ==
  \E n \in Names : \E a, b \in Running(n) :
    /\ b < a
    /\ items[a].inv = a
    /\ items[b].inv = a
    /\ items[a].priority > items[b].priority

(***************************************************************************)
(* C23: for every task the queue starts, the caller's result handle is     *)
(* settled exactly once with the task's own outcome: resolved if the task  *)
(* succeeds, rejected with the task's error if it throws or rejects, for   *)
(* every error value including null or undefined; a settled handle never   *)
(* changes again and no handle of a settled task is left pending.          *)
(***************************************************************************)
\* The handle has been settled
Settled(h) == h \in {"resolved", "rejected", "cleared", "full"}

C23_HandleSettledOnceWithOutcome ==
  [][/\ \A t \in TaskIds, o \in Outcomes :
          TaskSettles(t, o) =>
            /\ handles[t] = "pending"
            /\ handles'[t] = IF o = "ok" THEN "resolved" ELSE "rejected"
            /\ \A u \in TaskIds \ {t} : handles'[u] = handles[u]
     /\ \A t \in TaskIds : Settled(handles[t]) => handles'[t] = handles[t]]_qvars

(***************************************************************************)
(* C27: the processing flag of a queue is true only while at least one     *)
(* task of that queue is executing: in every state where no task of the    *)
(* queue is executing and no completion callback is pending, the flag is   *)
(* false.                                                                  *)
(***************************************************************************)
C27_ProcessingOnlyWhileExecuting ==
  \A n \in Names :
    (queues[n] # 0 /\ Running(n) = {} /\ CallbackPending(n) = {}) => ~processing[n]

(***************************************************************************)
(* C29: initializeQueue on a name that has waiting or executing tasks      *)
(* loses no task.  Only the array this.queues holds for a name is ever     *)
(* drained or cleared, so an item that still waits must be in that array:  *)
(* an item waiting in a superseded array can never be started or rejected  *)
(* and its handle never settles.                                           *)
(***************************************************************************)
C29_NoWaitingItemOrphaned ==
  \A t \in TaskIds :
    items[t].task = "queued" => t \in WaitingSet(items[t].queueName)

(***************************************************************************)
(* C24: the default retryability predicate returns true exactly for errors *)
(* that carry no response or whose response status s satisfies             *)
(* 500 <= s < 600, and false for every other status (all 4xx, 429          *)
(* included); the frontend function and the backend RetryService agree on  *)
(* every error.  So under the default predicate a failed attempt that is   *)
(* not the last is followed by a sleep exactly for those errors.           *)
(***************************************************************************)
\* No response, or a status in [500, 600)
ClaimedRetryable(e) == ~HasResponse(e) \/ (500 <= Status(e) /\ Status(e) < 600)

C24_DefaultPredicate ==
  [][\A e \in ErrorValues :
       /\ DefaultRetryableFrontend(e) = ClaimedRetryable(e)
       /\ DefaultRetryableBackend(e) = DefaultRetryableFrontend(e)
       /\ (Status(e) >= 400 /\ Status(e) < 500) => ~DefaultRetryableFrontend(e)
       /\ ( /\ OpRejects(e)
            /\ ropts.retryable = "default"
            /\ retry.attempt < ropts.maxAttempts )
          => (retry'.phase = "sleeping") = ClaimedRetryable(e)]_vars

\* The backend's default predicate let a 599 be retried and then refused a
\* 600 on the second of three attempts.
C24_Witness ==
  /\ side = "backend"
  /\ ropts.retryable = "default"
  /\ ropts.maxAttempts = 3
  /\ retry.phase = "rejected"
  /\ retry.errors = <<"http599", "http600">>
  /\ retry.invocations = 2

(***************************************************************************)
(* C25: retryWithBackoff invokes the operation at most maxAttempts times   *)
(* and stops at the first success: when attempt k succeeds the call        *)
(* resolves with that attempt's result, and after it the operation is not  *)
(* invoked and no sleep occurs.                                            *)
(***************************************************************************)
C25_StopsAtFirstSuccess ==
  [][/\ retry'.invocations <= ropts.maxAttempts
     /\ \A v \in ResultValues :
          OpResolves(v) =>
            /\ retry'.phase = "resolved"
            /\ retry'.outcome = v
            /\ retry'.invocations = retry.attempt
            /\ retry'.invocations = retry.invocations
            /\ retry'.sleeps = retry.sleeps
     /\ retry.phase = "resolved" => retry' = retry]_vars

\* The second of three attempts succeeded: two invocations, one sleep.
C25_Witness ==
  /\ ropts.maxAttempts = 3
  /\ retry.phase = "resolved"
  /\ retry.outcome = "v2"
  /\ retry.invocations = 2
  /\ Len(retry.errors) = 1
  /\ Len(retry.sleeps) = 1

(***************************************************************************)
(* C26: the health metrics payload reports the request counts and response *)
(* times that were recorded: after PerformanceInterceptor has recorded N   *)
(* successful and M failed HTTP requests, getMetrics returns               *)
(* httpRequests = N, httpErrors = M and, when N > 0, a non-null            *)
(* httpRequestDuration histogram with count N.                             *)
(***************************************************************************)
C26_PayloadReportsRecorded ==
  payload.called =>
    /\ payload.httpRequests = payload.ok
    /\ payload.httpErrors = payload.failed
    /\ payload.ok > 0 =>
         /\ payload.httpRequestDuration # NoStats
         /\ payload.httpRequestDuration.count = payload.ok

(***************************************************************************)
(* C30: for any sequence of response outcomes the response interceptor     *)
(* starts at most one recovery per original request (one token-refresh     *)
(* re-send or one retryWithBackoff sequence of at most 3 attempts), so the *)
(* request is sent at most 4 times and, as long as it has not settled,     *)
(* something it waits for is under way; when the retries fail, the         *)
(* original error is the one rejected.                                     *)
(***************************************************************************)
\* The request has settled for its caller
XferSettled == xfer.phase \in {"resolved", "rejected"}

C30_OneRecoveryBoundedSends ==
  /\ xfer.recoveries <= 1
  /\ Len(frames) <= 1
  /\ xfer.sends <= 1 + 3
  /\ xfer.recovery = "refresh" => xfer.sends <= 2
  /\ \A i \in 1..Len(frames) : frames[i].r.invocations <= 3
  /\ ~XferSettled => ENABLED XNext
  /\ XferSettled => frames = <<>>
  /\ (xfer.phase = "rejected" /\ xfer.recovery = "retry") => xfer.outcome = xfer.first

\* A rate-limited request was retried three times, each retry failing with a
\* server error, and was rejected with the original 429.
C30_Witness ==
  /\ xfer.phase = "rejected"
  /\ xfer.first = "http429"
  /\ xfer.recovery = "retry"
  /\ xfer.sends = 4
  /\ xfer.outcome = "http429"

=============================================================================
